---- MODULE Spec2Model ----
(***************************************************************************)
(* Model of arch/rv32i/src/machine_timer.rs: the RISC-V machine timer      *)
(* driver (MachineTimer) over the mtime / mtimecmp register pair.          *)
(*                                                                         *)
(* 64-bit register values are kept at their real width.  A u64 is a tuple  *)
(* of four 16-bit limbs, most significant first; a u32 is a tuple of two.  *)
(* 0xFFFF_FFFF_FFFF_FFFF is <<65535, 65535, 65535, 65535>>.                *)
(***************************************************************************)
EXTENDS Integers, Sequences, FiniteSets, TLC

VARIABLES
    mtimecmp,   \* registers.mtimecmp (u64)
    mtime,      \* registers.mtime (u64), driven by the hardware
    client,     \* MachineTimer.client: None or a client
    pc,         \* position of the core: "idle", or inside handle_interrupt
    log,        \* sequence of the clients whose fired() has been invoked
    regs,       \* history: the arguments of the set_client calls, in order
    lastOp,     \* history: the operation that produced this state
    irq,        \* history: facts about the current / latest handle_interrupt
    disarmed,   \* history: sentinel written and no set_alarm since
    hwSinceArm, \* history: hardware-raised notifications since set_alarm
    raisedAtMax,\* history: since set_alarm, a handler entry was raised while
                \* disarmed with the counter at 2^64-1
    armT,       \* history: the argument of the latest set_alarm, or <<>>
    rd,         \* history: the latest read operation and what it returned
    ticks       \* number of counter ticks taken (bounds the model)

vars == <<mtimecmp, mtime, client, pc, log, regs, lastOp, irq, disarmed,
          hwSinceArm, raisedAtMax, armT, rd, ticks>>

----------------------------------------------------------------------------
(* Bounds of the model *)

MaxTicks == 3
MaxFired == 2
MaxRegs == 2

----------------------------------------------------------------------------
(* Fixed-width unsigned integers *)

LimbBase == 2^16
LimbMax == LimbBase - 1

U64 == [1..4 -> 0..LimbMax]
U32 == [1..2 -> 0..LimbMax]

\* core::u64::MAX
U64Max == <<LimbMax, LimbMax, LimbMax, LimbMax>>
\* core::u32::MAX
U32Max == <<LimbMax, LimbMax>>
U64Zero == <<0, 0, 0, 0>>

\* `x as u64` for x : u32 (zero extension)
AsU64(x) == <<0, 0, x[1], x[2]>>

\* `x as u32` for x : u64 (truncation to the low 32 bits)
AsU32(x) == <<x[3], x[4]>>

\* a >= b on u64
RECURSIVE GEFrom(_, _, _)
GEFrom(a, b, i) ==
    IF i > 4 THEN TRUE
    ELSE IF a[i] > b[i] THEN TRUE
    ELSE IF a[i] < b[i] THEN FALSE
    ELSE GEFrom(a, b, i + 1)

GE(a, b) == GEFrom(a, b, 1)

\* a + 1 on u64, wrapping from 2^64-1 to 0
RECURSIVE IncFrom(_, _)
IncFrom(a, i) ==
    IF i = 0 THEN a
    ELSE IF a[i] = LimbMax THEN IncFrom([a EXCEPT ![i] = 0], i - 1)
    ELSE [a EXCEPT ![i] = a[i] + 1]

Inc(a) == IncFrom(a, 4)

----------------------------------------------------------------------------
(* Inputs *)

None == "none"
Clients == {"A", "B"}

\* the 32-bit targets passed to set_alarm
Tics == {<<0, 0>>, <<0, 1>>, <<0, 5000>>, U32Max}

\* counter values at which the driver is first observed
StartTimes == {U64Zero,
               <<0, 0, 0, 4999>>,
               <<0, 0, LimbMax, LimbMax - 1>>,
               <<LimbMax, LimbMax, LimbMax, LimbMax - 2>>}

\* values hardware reset may leave in mtimecmp
ResetCmps == {U64Max, <<0, 1, 0, 5000>>}

----------------------------------------------------------------------------
(* The driver's functions, as functions of the register / slot contents *)

\* the value is_enabled compares with and disable_machine_timer writes
Sentinel == U64Max

\* MachineTimer::new: the client slot starts empty
new == [client |-> None]

\* variant: the 32-bit maximum is written instead of the 64-bit one
disable_machine_timer_u32(cmp) == AsU64(U32Max)

\* disable_machine_timer: the value written to mtimecmp
disable_machine_timer(cmp) == Sentinel

\* variant: the target is sign-extended instead of zero-extended
set_alarm_sext(tics) ==
    IF tics[1] >= LimbBase \div 2
    THEN <<LimbMax, LimbMax, tics[1], tics[2]>>
    ELSE AsU64(tics)

\* Alarm::set_alarm: the value written to mtimecmp
set_alarm(tics) == AsU64(tics)

\* Alarm::get_alarm
get_alarm(cmp) == AsU32(cmp)

\* variant: only the low 32 bits are compared with the 32-bit maximum
is_enabled_low32(cmp) == AsU32(cmp) # U32Max

\* Alarm::is_enabled
is_enabled(cmp) == cmp # Sentinel

\* variant: disabling a disabled timer is reported as a failure
disable_fail(cmp) ==
    [mtimecmp |-> disable_machine_timer(cmp),
     ret |-> IF cmp = Sentinel THEN "FAIL" ELSE "SUCCESS"]

\* variant: disabling a disabled timer writes zero instead of the sentinel
disable_toggle(cmp) ==
    [mtimecmp |-> IF cmp = Sentinel THEN U64Zero ELSE Sentinel,
     ret |-> "SUCCESS"]

\* Alarm::disable: register written, status returned
disable(cmp) == [mtimecmp |-> disable_machine_timer(cmp), ret |-> "SUCCESS"]

\* variant: a registration does not replace an earlier one
set_client_first(slot, c) == IF slot = None THEN c ELSE slot

\* Alarm::set_client: new content of the client slot
set_client(slot, c) == c

\* variant: the notification is left out
client_map_drop(slot) == <<>>

\* self.client.map(|client| client.fired()): the clients notified
client_map(slot) == IF slot = None THEN <<>> ELSE <<slot>>

\* variant: the slot is emptied by the notification (take instead of map)
client_after_map_take(slot) == None

\* self.client.map(...): the content of the slot afterwards
client_after_map(slot) == slot

\* variant: the comparator is disarmed once more after the notification
handle_interrupt_exit_disarm(cmp) == Sentinel

\* handle_interrupt after client.fired() has returned: mtimecmp on exit
handle_interrupt_exit(cmp) == cmp

\* variant: only the low 32 bits of the counter are returned
now_low32(time) == AsU64(AsU32(time))

\* Time::now
now(time) == time

\* Time::max_tics
max_tics == U64Max

\* hardware: the timer interrupt condition
Pending == GE(mtime, mtimecmp)

----------------------------------------------------------------------------
(* State machine *)

NoIrq == [pending |-> FALSE, had |-> None, n |-> 0, rearmed |-> FALSE,
          cmp |-> U64Zero, nlog |-> 0]

NoRd == [op |-> "none", val |-> <<>>, afterIrq |-> FALSE, age |-> 0]

\* a read operation returning val; afterIrq: handle_interrupt has just
\* returned; age: the number of interrupts taken since the read
Rd(name, val) ==
    [op |-> name, val |-> val, afterIrq |-> (lastOp.op = "return"),
     age |-> 0]

\* a call from ordinary context ends the caller's use of its latest read
AfterCall == IF pc = "idle" THEN NoRd ELSE rd

Op(name, arg, ret) ==
    [op |-> name, arg |-> arg, ret |-> ret, pre |-> mtimecmp,
     nlog |-> Len(log)]

Init ==
    /\ mtimecmp \in ResetCmps
    /\ mtime \in StartTimes
    /\ client = new.client
    /\ pc = "idle"
    /\ log = <<>>
    /\ regs = <<>>
    /\ lastOp = [op |-> "new", arg |-> <<>>, ret |-> "", pre |-> mtimecmp,
                 nlog |-> 0]
    /\ irq = NoIrq
    /\ disarmed = FALSE
    /\ hwSinceArm = 0
    /\ raisedAtMax = FALSE
    /\ armT = <<>>
    /\ rd = NoRd
    /\ ticks = 0

\* ordinary context, or the client's fired callback calling back in
CanCall == pc \in {"idle", "callback"}

\* hardware: the counter advances by one tick
Tick ==
    /\ ticks < MaxTicks
    /\ mtime' = Inc(mtime)
    /\ ticks' = ticks + 1
    /\ lastOp' = Op("tick", <<>>, "")
    /\ UNCHANGED <<mtimecmp, client, pc, log, regs, irq, disarmed, hwSinceArm,
                   raisedAtMax, armT, rd>>

SetAlarm(tics) ==
    /\ CanCall
    /\ mtimecmp' = set_alarm(tics)
    /\ lastOp' = Op("set_alarm", tics, "")
    /\ disarmed' = FALSE
    /\ hwSinceArm' = 0
    /\ raisedAtMax' = FALSE
    /\ armT' = tics
    /\ irq' = IF pc = "callback" THEN [irq EXCEPT !.rearmed = TRUE] ELSE irq
    /\ rd' = AfterCall
    /\ UNCHANGED <<mtime, client, pc, log, regs, ticks>>

Disable ==
    /\ CanCall
    /\ mtimecmp' = disable(mtimecmp).mtimecmp
    /\ lastOp' = Op("disable", <<>>, disable(mtimecmp).ret)
    /\ disarmed' = TRUE
    /\ irq' = IF pc = "callback" THEN [irq EXCEPT !.rearmed = FALSE] ELSE irq
    /\ rd' = AfterCall
    /\ UNCHANGED <<mtime, client, pc, log, regs, hwSinceArm, raisedAtMax, armT,
                   ticks>>

SetClient(c) ==
    /\ CanCall
    /\ Len(regs) < MaxRegs
    /\ client' = set_client(client, c)
    /\ regs' = Append(regs, c)
    /\ lastOp' = Op("set_client", <<>>, "")
    /\ rd' = AfterCall
    /\ UNCHANGED <<mtimecmp, mtime, pc, log, irq, disarmed, hwSinceArm,
                   raisedAtMax, armT, ticks>>

\* handle_interrupt, first statement: self.disable_machine_timer()
HandleInterrupt ==
    /\ pc = "idle"
    /\ Len(log) < MaxFired
    /\ mtimecmp' = disable_machine_timer(mtimecmp)
    /\ pc' = "entered"
    /\ irq' = [pending |-> Pending, had |-> client, n |-> 0,
               rearmed |-> FALSE, cmp |-> mtimecmp, nlog |-> Len(log)]
    /\ raisedAtMax' = (raisedAtMax \/ (Pending /\ disarmed /\ mtime = U64Max))
    /\ disarmed' = TRUE
    /\ lastOp' = Op("handle_interrupt", <<>>, "")
    /\ rd' = IF rd.op = "none" \/ rd.age = 2 THEN rd
             ELSE [rd EXCEPT !.age = rd.age + 1]
    /\ UNCHANGED <<mtime, client, log, regs, hwSinceArm, armT, ticks>>

\* handle_interrupt, second statement: self.client.map(|client| client.fired())
Fired ==
    /\ pc = "entered"
    /\ log' = log \o client_map(client)
    /\ irq' = [irq EXCEPT !.n = Len(client_map(client))]
    /\ pc' = IF client_map(client) = <<>> THEN "idle" ELSE "callback"
    /\ lastOp' = IF client_map(client) = <<>>
                 THEN Op("return", <<>>, "")
                 ELSE Op("fired", <<>>, "")
    /\ hwSinceArm' = IF irq.pending
                     THEN hwSinceArm + Len(client_map(client))
                     ELSE hwSinceArm
    /\ client' = client_after_map(client)
    /\ UNCHANGED <<mtimecmp, mtime, regs, disarmed, raisedAtMax, armT, rd,
                   ticks>>

\* the client's fired() returns, and handle_interrupt with it
Return ==
    /\ pc = "callback"
    /\ pc' = "idle"
    /\ mtimecmp' = handle_interrupt_exit(mtimecmp)
    /\ lastOp' = Op("return", <<>>, "")
    /\ UNCHANGED <<mtime, client, log, regs, irq, disarmed, hwSinceArm,
                   raisedAtMax, armT, rd, ticks>>

Next ==
    \/ Tick
    \/ \E tics \in Tics : SetAlarm(tics)
    \/ Disable
    \/ \E c \in Clients : SetClient(c)
    \/ HandleInterrupt
    \/ Fired
    \/ Return

Spec == Init /\ [][Next]_vars

----------------------------------------------------------------------------
(* The read operations, called from ordinary context.  A timer interrupt    *)
(* may be taken before or after each of them.  The counter is held at one   *)
(* value here: no operation of the driver depends on it.                    *)

\* all but the variables a read operation records its result in
state == <<mtimecmp, mtime, client, pc, log, regs, irq, disarmed, hwSinceArm,
           raisedAtMax, armT, ticks>>

Now ==
    /\ pc = "idle"
    /\ rd' = Rd("now", now(mtime))
    /\ lastOp' = Op("now", <<>>, "")
    /\ UNCHANGED state

MaxTics ==
    /\ pc = "idle"
    /\ rd' = Rd("max_tics", max_tics)
    /\ lastOp' = Op("max_tics", <<>>, "")
    /\ UNCHANGED state

GetAlarm ==
    /\ pc = "idle"
    /\ rd' = Rd("get_alarm", get_alarm(mtimecmp))
    /\ lastOp' = Op("get_alarm", <<>>, "")
    /\ UNCHANGED state

IsEnabled ==
    /\ pc = "idle"
    /\ rd' = Rd("is_enabled", is_enabled(mtimecmp))
    /\ lastOp' = Op("is_enabled", <<>>, "")
    /\ UNCHANGED state

\* the counter value at which the reads are observed
ReadStarts == {<<0, 0, 0, 4999>>}

ReadInit ==
    /\ Init
    /\ mtime \in ReadStarts

ReadNext ==
    \/ \E tics \in Tics : SetAlarm(tics)
    \/ Disable
    \/ \E c \in Clients : SetClient(c)
    \/ HandleInterrupt
    \/ Fired
    \/ Return
    \/ Now
    \/ MaxTics
    \/ GetAlarm
    \/ IsEnabled

ReadSpec == ReadInit /\ [][ReadNext]_vars

\* the timer starts Disabled, as after disable() or a reset to the sentinel
SentinelInit ==
    /\ Init
    /\ mtimecmp = Sentinel

SentinelSpec == SentinelInit /\ [][Next]_vars

----------------------------------------------------------------------------
(* Delivery of one alarm: the timer starts Disabled with a client           *)
(* registered, set_alarm is called once, and handle_interrupt is invoked    *)
(* only by the hardware, when the timer interrupt condition holds.          *)

\* a + n on u64, wrapping
RECURSIVE Add(_, _)
Add(a, n) == IF n = 0 THEN a ELSE Add(Inc(a), n - 1)

\* the counter is at or reaches the target within the ticks the model has left
InReach(tics) ==
    \E k \in 0..(MaxTicks - ticks) : GE(Add(mtime, k), AsU64(tics))

LiveInit ==
    /\ mtimecmp = Sentinel
    /\ mtime \in StartTimes
    /\ client \in Clients
    /\ pc = "idle"
    /\ log = <<>>
    /\ regs = <<client>>
    /\ lastOp = [op |-> "new", arg |-> <<>>, ret |-> "", pre |-> mtimecmp,
                 nlog |-> 0]
    /\ irq = NoIrq
    /\ disarmed = TRUE
    /\ hwSinceArm = 0
    /\ raisedAtMax = FALSE
    /\ armT = <<>>
    /\ rd = NoRd
    /\ ticks = 0

\* the single set_alarm call of the scenario
LiveArm(tics) ==
    /\ pc = "idle"
    /\ armT = <<>>
    /\ log = <<>>
    /\ InReach(tics)
    /\ SetAlarm(tics)

\* the counter advances; an interrupt pending for an armed comparator is
\* taken before the counter wraps
LiveTick ==
    /\ ~(Pending /\ mtimecmp # U64Max /\ mtime = U64Max)
    /\ Tick

\* the interrupt controller invokes the handler for a raised interrupt
LiveDispatch ==
    /\ Pending
    /\ HandleInterrupt

LiveNext ==
    \/ LiveTick
    \/ \E tics \in Tics : LiveArm(tics)
    \/ LiveDispatch
    \/ Fired
    \/ Return

LiveSpec ==
    /\ LiveInit
    /\ [][LiveNext]_vars
    /\ WF_vars(LiveTick)
    /\ WF_vars(LiveDispatch)
    /\ WF_vars(Fired)
    /\ WF_vars(Return)

TypeOK ==
    /\ mtimecmp \in U64
    /\ mtime \in U64
    /\ client \in Clients \cup {None}
    /\ pc \in {"idle", "entered", "callback"}

----------------------------------------------------------------------------
(* Properties *)

Last(q) == q[Len(q)]

\* C1: for every 32-bit t and from any prior state, immediately after
\* set_alarm(t) is_enabled() is true and get_alarm() is exactly t
\* (t = 0 and t = 0xFFFF_FFFF included).
C1_SetAlarmReadBack ==
    lastOp.op = "set_alarm" =>
        /\ is_enabled(mtimecmp)
        /\ get_alarm(mtimecmp) = lastOp.arg

C1_Witness ==
    /\ lastOp.op = "set_alarm"
    /\ lastOp.arg = U32Max
    /\ lastOp.pre = Sentinel
    /\ client # None
    /\ is_enabled(mtimecmp)
    /\ get_alarm(mtimecmp) = U32Max

\* C2: from any prior state, immediately after disable() is_enabled() is
\* false and get_alarm() is 0xFFFF_FFFF.
C2_DisableReadBack ==
    lastOp.op = "disable" =>
        /\ ~is_enabled(mtimecmp)
        /\ get_alarm(mtimecmp) = U32Max

C2_Witness ==
    /\ lastOp.op = "disable"
    /\ lastOp.pre = AsU64(<<0, 5000>>)
    /\ ~is_enabled(mtimecmp)

\* C3 as stated: when handle_interrupt() returns the comparator holds the
\* sentinel, whatever the prior state and the client slot.
C3_DisabledOnReturn ==
    lastOp.op = "return" => mtimecmp = Sentinel /\ ~is_enabled(mtimecmp)

\* C3 amended: when handle_interrupt() returns the comparator holds the
\* sentinel, whatever the prior state and the client slot, unless the
\* client's fired callback armed the timer with set_alarm and did not
\* disable it again.
C3_DisabledOnReturnUnlessRearmed ==
    (lastOp.op = "return" /\ ~irq.rearmed) =>
        mtimecmp = Sentinel /\ ~is_enabled(mtimecmp)

C3_Witness ==
    /\ lastOp.op = "return"
    /\ irq.cmp = AsU64(<<0, 5000>>)
    /\ irq.had # None
    /\ ~irq.rearmed
    /\ mtimecmp = Sentinel

\* C4: a call of handle_interrupt() invokes fired exactly once when a client
\* is registered and not at all when the slot is empty, whether the timer
\* was Armed or Disabled and whatever the counter value.
C4_FiredOncePerCall ==
    lastOp.op = "return" =>
        /\ irq.n = (IF irq.had = None THEN 0 ELSE 1)
        /\ Len(log) = irq.nlog + irq.n
        /\ irq.had # None => Last(log) = irq.had

C4_Witness ==
    /\ lastOp.op = "return"
    /\ irq.had = "A"
    /\ irq.cmp = Sentinel
    /\ ~irq.pending
    /\ irq.n = 1
    /\ log = <<"A">>

C6_LastClientWins ==
    (lastOp.op = "fired" /\ Len(regs) >= 2) =>
        /\ irq.n = 1
        /\ Len(log) = irq.nlog + 1
        /\ Last(log) = Last(regs)

C6_Witness ==
    /\ lastOp.op = "fired"
    /\ regs = <<"A", "B">>
    /\ armT # <<>>
    /\ Last(log) = "B"
    /\ Len(log) = irq.nlog + 1

C9_DisableIdempotent ==
    /\ lastOp.op = "disable" => Len(log) = lastOp.nlog
    /\ (lastOp.op = "disable" /\ lastOp.pre = Sentinel) =>
           mtimecmp = Sentinel /\ ~is_enabled(mtimecmp)
    /\ disable(disable(mtimecmp).mtimecmp) = disable(mtimecmp)

C9_Witness ==
    /\ lastOp.op = "disable"
    /\ lastOp.pre = Sentinel
    /\ disarmed
    /\ client # None
    /\ mtimecmp = Sentinel
    /\ Len(log) = lastOp.nlog

\* C10: no operation has an error outcome: disable() returns SUCCESS in every
\* state, and a handle_interrupt() with an empty client slot returns without
\* notification and without error.
C10_NoErrorOutcome ==
    /\ lastOp.ret \in {"", "SUCCESS"}
    /\ lastOp.op = "disable" => lastOp.ret = "SUCCESS"
    /\ (lastOp.op = "return" /\ irq.had = None) =>
           pc = "idle" /\ irq.n = 0 /\ Len(log) = irq.nlog

C10_Witness ==
    /\ lastOp.op = "disable"
    /\ lastOp.ret = "SUCCESS"
    /\ lastOp.pre = Sentinel
    /\ client = None
    /\ irq.pending
    /\ irq.had = None

C11_NowFollowsCounter ==
    [][/\ \/ GE(now(mtime'), now(mtime))
          \/ (now(mtime) = max_tics /\ now(mtime') = U64Zero)
       /\ now(mtime) = max_tics => now(mtime') \in {max_tics, U64Zero}
       /\ lastOp'.op # "tick" => now(mtime') = now(mtime)]_vars

C11_Witness ==
    /\ lastOp.op = "tick"
    /\ ticks >= 1
    /\ now(mtime) = U64Zero
    /\ max_tics = U64Max

\* C12: is_enabled() is true iff mtimecmp # 0xFFFF_FFFF_FFFF_FFFF; only
\* set_alarm moves the timer to Armed, only disable() and handle_interrupt()
\* move it to Disabled; now(), max_tics(), get_alarm(), is_enabled() and
\* set_client() leave mtimecmp unchanged; set_alarm() and disable() leave the
\* client slot unchanged and notify nobody.
C12_Transitions ==
    /\ [](is_enabled(mtimecmp) <=> mtimecmp # U64Max)
    /\ [][/\ (~is_enabled(mtimecmp) /\ is_enabled(mtimecmp'))
               => lastOp'.op = "set_alarm"
          /\ (is_enabled(mtimecmp) /\ ~is_enabled(mtimecmp'))
               => lastOp'.op \in {"disable", "handle_interrupt"}
          /\ lastOp'.op = "set_alarm" => is_enabled(mtimecmp')
          /\ lastOp'.op \in {"disable", "handle_interrupt"}
               => ~is_enabled(mtimecmp')
          /\ lastOp'.op \in {"now", "max_tics", "get_alarm", "is_enabled",
                             "set_client"}
               => mtimecmp' = mtimecmp
          /\ lastOp'.op \in {"now", "max_tics", "get_alarm", "is_enabled"}
               => client' = client /\ log' = log /\ mtime' = mtime
          /\ lastOp'.op \in {"set_alarm", "disable"}
               => client' = client /\ log' = log]_vars

C12_Witness ==
    /\ lastOp.op = "is_enabled"
    /\ rd.val = TRUE
    /\ armT = U32Max
    /\ mtimecmp = AsU64(armT)
    /\ client # None

\* C13 as stated: a read of get_alarm() or is_enabled() around a timer
\* interrupt returns what the pre-interrupt comparator value gives or what
\* the sentinel gives, never a third value.
C13_ReadOldOrSentinel ==
    /\ (lastOp.op = "get_alarm" /\ rd.afterIrq) =>
           rd.val \in {get_alarm(irq.cmp), U32Max}
    /\ (lastOp.op = "is_enabled" /\ rd.afterIrq) =>
           rd.val \in {is_enabled(irq.cmp), FALSE}
    /\ (rd.op = "get_alarm" /\ rd.age = 1) => rd.val = get_alarm(irq.cmp)
    /\ (rd.op = "is_enabled" /\ rd.age = 1) => rd.val = is_enabled(irq.cmp)

\* C13 amended: a read of get_alarm() or is_enabled() around a timer
\* interrupt returns what the pre-interrupt comparator value gives, what the
\* sentinel gives, or, when the client's fired callback called set_alarm,
\* what the target of that call gives; a read taken before the interrupt
\* keeps the pre-interrupt answer.
C13_ReadOldSentinelOrRearmed ==
    /\ (lastOp.op = "get_alarm" /\ rd.afterIrq) =>
           \/ rd.val \in {get_alarm(irq.cmp), U32Max}
           \/ irq.rearmed /\ rd.val = armT
    /\ (lastOp.op = "is_enabled" /\ rd.afterIrq) =>
           \/ rd.val \in {is_enabled(irq.cmp), FALSE}
           \/ irq.rearmed /\ rd.val = TRUE
    /\ (rd.op = "get_alarm" /\ rd.age = 1) => rd.val = get_alarm(irq.cmp)
    /\ (rd.op = "is_enabled" /\ rd.age = 1) => rd.val = is_enabled(irq.cmp)

\* is_enabled() returned true and handle_interrupt() has disarmed the timer
\* by the time the caller acts on the result
C13_Witness ==
    /\ rd.op = "is_enabled"
    /\ rd.val = TRUE
    /\ rd.age = 1
    /\ lastOp.op = "return"
    /\ pc = "idle"
    /\ ~is_enabled(mtimecmp)

\* C14: starting from a comparator at the sentinel, after any sequence of
\* driver operations mtimecmp is the sentinel or a value below 2^32; so
\* set_alarm never leaves the timer Disabled, not even for 0xFFFF_FFFF.
C14_SentinelOrBelow2p32 ==
    /\ \/ mtimecmp = U64Max
       \/ mtimecmp[1] = 0 /\ mtimecmp[2] = 0
    /\ lastOp.op = "set_alarm" =>
           /\ mtimecmp # U64Max
           /\ is_enabled(mtimecmp)

C14_Witness ==
    /\ lastOp.op = "set_alarm"
    /\ lastOp.arg = U32Max
    /\ lastOp.pre = U64Max
    /\ log # <<>>
    /\ mtimecmp = <<0, 0, LimbMax, LimbMax>>

\* C15: a set_alarm(t) called by the client inside fired survives the
\* handler: handle_interrupt() writes no comparator value after the
\* callback, so on return the timer is Armed, get_alarm() is t and the timer
\* interrupt condition is that of t.
C15_RearmSurvives ==
    (lastOp.op = "return" /\ irq.rearmed) =>
        /\ is_enabled(mtimecmp)
        /\ get_alarm(mtimecmp) = armT
        /\ mtimecmp = AsU64(armT)
        /\ Pending <=> GE(mtime, AsU64(armT))

C15_Witness ==
    /\ lastOp.op = "return"
    /\ irq.rearmed
    /\ irq.pending
    /\ armT = <<0, 5000>>
    /\ get_alarm(mtimecmp) = <<0, 5000>>
    /\ ~Pending

\* C16: set_alarm zero-extends the target, so right after set_alarm(t) the
\* timer interrupt condition holds exactly when the counter is already >= t:
\* always once mtime >= 2^32, and for any target in the past; a pending
\* condition is cleared only when t > mtime.
C16_PastTargetPendsAtOnce ==
    lastOp.op = "set_alarm" =>
        /\ Pending <=> GE(mtime, AsU64(lastOp.arg))
        /\ (mtime[1] > 0 \/ mtime[2] > 0) => Pending
        /\ (GE(mtime, lastOp.pre) /\ ~Pending) =>
               ~GE(mtime, AsU64(lastOp.arg))

C16_Witness ==
    /\ lastOp.op = "set_alarm"
    /\ lastOp.arg = U32Max
    /\ mtime = <<0, 1, 0, 0>>
    /\ ticks = 2
    /\ Pending

\* C17: the client slot is empty initially and never returns to empty: once
\* set_client has been called the slot holds the most recently registered
\* client, and every later handle_interrupt() delivers exactly one
\* notification, to that client.
C17_ClientNeverUnset ==
    /\ lastOp.op = "new" => client = None
    /\ regs = <<>> => client = None /\ log = <<>>
    /\ regs # <<>> => client # None /\ client = Last(regs)
    /\ (lastOp.op = "fired" /\ regs # <<>>) =>
           /\ irq.n = 1
           /\ Len(log) = irq.nlog + 1
           /\ Last(log) = Last(regs)
    /\ (lastOp.op = "return" /\ regs # <<>>) => irq.n = 1

C17_Witness ==
    /\ lastOp.op = "fired"
    /\ regs = <<"A">>
    /\ client = "A"
    /\ log = <<"A", "A">>

====
